---- MODULE Spec2Model ----
(***************************************************************************)
(* A model of parcel-transformer-minify-literals: the default strategy's   *)
(* placeholder codec, the selector-spacing fixup, minifyHTMLLiterals with  *)
(* its concurrently processed templates and shared edit buffer, the        *)
(* defaulting of the options object, and the Parcel transformer.           *)
(*                                                                         *)
(* Strings are sequences of one-character strings.                         *)
(***************************************************************************)
EXTENDS Integers, Sequences, FiniteSets, TLC

VARIABLES
    cParts,         \* codec: the template parts' texts
    cPlaceholder,   \* codec: the placeholder in use
    cCombined,      \* codec: combineHTMLStrings' result
    cSplit,         \* codec: splitHTMLByPlaceholder's result
    cPc,            \* codec: position in getPlaceholder / combine / split
    cCustom,        \* codec: TRUE when the placeholder is not getPlaceholder's
    fOriginal,      \* fixup: the text before minification
    fResult,        \* fixup: the minified text being repaired
    fExpected,      \* fixup: the minified text with every spaced form restored
    fLastIndex,     \* fixup: regex.lastIndex
    fPc,            \* fixup: "loop" or "done"
    options,        \* the options object the caller passes (written by the call)
    source,         \* minifyHTMLLiterals: the source text
    literals,       \* what the locator finds in the source
    templates,      \* const templates
    validate,       \* let validate: "default", "custom" or "none"
    skipCSS,        \* let skipCSS
    skipHTML,       \* let skipHTML
    ms,             \* const ms: the edit buffer
    mapIndex,       \* the template templates.map() starts next
    tState,         \* per template: its promise
    tVia,           \* per template: how its text is minified
    tPlaceholder,   \* per template: const placeholder
    tMinParts,      \* per template: const minParts
    pc,             \* minifyHTMLLiterals: "idle", "begin", "map", "await", "done"
    outcome,        \* what the call settles to: "pending", "rejected", "null", "result"
    resultCode,     \* the code of a Result
    nGetPlaceholder, \* calls of strategy.getPlaceholder
    nMinify,        \* calls of a minifier
    nOverwrite,     \* calls of ms.overwrite
    build,          \* transformer: which copy of transform runs
    trPc,           \* transformer: "none", "start", "called", "returned", "threw"
    assetCode,      \* transformer: the asset's code
    setCodeCalls,   \* transformer: calls of asset.setCode
    callerOptions,  \* options: the values the caller has set
    passed,         \* options: what the last call handed to its collaborators
    passedFresh,    \* options: what a call with a fresh options object would have
    oCalls          \* options: calls made with the options object

codecVars == <<cParts, cPlaceholder, cCombined, cSplit, cPc, cCustom>>

fixVars == <<fOriginal, fResult, fExpected, fLastIndex, fPc>>

callVars ==
    <<source, literals, templates, validate, skipCSS, skipHTML, ms, mapIndex, tState,
      tVia, tPlaceholder, tMinParts, pc, outcome, resultCode, nGetPlaceholder, nMinify,
      nOverwrite>>

transformVars == <<build, trPc, assetCode, setCodeCalls>>

optsVars == <<callerOptions, passed, passedFresh, oCalls>>

vars == <<codecVars, fixVars, options, callVars, transformVars, optsVars>>

(***************************************************************************)
(* Bounds of the model.                                                    *)
(***************************************************************************)
\* the number of chunks and expression holes a generated template body holds
MaxChunks == 5

\* the number of pseudo-classes and rule ends a generated style sheet holds
MaxSheetTokens == 4

\* the number of tagged templates a generated source holds
MaxTemplates == 2

\* the number of calls made with one options object
MaxCalls == 2

\* the number of chunks and holes of a markup body given to minifyHTML
MaxTagChunks == 4

\* the number of chunks and placeholder occurrences of a minified text
MaxPieces == 4

(***************************************************************************)
(* String primitives of the JavaScript runtime, on sequences of characters.*)
(***************************************************************************)
Min(S) == CHOOSE x \in S : \A y \in S : x <= y

\* s.substring(from, to), 0-based, to exclusive
Substring(s, from, to) == SubSeq(s, from + 1, to)

\* s.indexOf(t, from): the first 0-based index >= from where t occurs, or -1
IndexOfFrom(s, t, from) ==
    LET cands == {i \in from..(Len(s) - Len(t)) : SubSeq(s, i + 1, i + Len(t)) = t}
    IN IF cands = {} THEN -1 ELSE Min(cands)

IndexOf(s, t) == IndexOfFrom(s, t, 0)

\* s.includes(t)
Includes(s, t) == IndexOf(s, t) >= 0

\* s.endsWith(t)
EndsWith(s, t) == Len(s) >= Len(t) /\ SubSeq(s, Len(s) - Len(t) + 1, Len(s)) = t

\* s.startsWith(t)
StartsWith(s, t) == Len(s) >= Len(t) /\ SubSeq(s, 1, Len(t)) = t

\* s.split(sep): non-overlapping occurrences, left to right; an empty
\* separator splits into characters
RECURSIVE SplitStr(_, _)
SplitStr(s, sep) ==
    IF sep = <<>>
    THEN [i \in 1..Len(s) |-> <<s[i]>>]
    ELSE LET i == IndexOf(s, sep)
         IN IF i < 0
            THEN <<s>>
            ELSE <<Substring(s, 0, i)>> \o SplitStr(Substring(s, i + Len(sep), Len(s)), sep)

\* texts.join(sep)
RECURSIVE JoinStr(_, _)
JoinStr(texts, sep) ==
    IF Len(texts) = 0 THEN <<>>
    ELSE IF Len(texts) = 1 THEN texts[1]
    ELSE texts[1] \o sep \o JoinStr(Tail(texts), sep)

\* s.replaceAll(t, r) for a non-empty t
RECURSIVE ReplaceAll(_, _, _)
ReplaceAll(s, t, r) ==
    LET i == IndexOf(s, t)
    IN IF i < 0 THEN s
       ELSE Substring(s, 0, i) \o r \o ReplaceAll(Substring(s, i + Len(t), Len(s)), t, r)

\* the number of non-overlapping occurrences of t in s
Occurrences(s, t) == Len(SplitStr(s, t)) - 1

(***************************************************************************)
(* The default strategy's placeholder codec.                               *)
(***************************************************************************)
\* const suffix = '();'
suffix == <<"(", ")", ";">>

\* let placeholder = '@TEMPLATE_EXPRESSION'
PlaceholderBase ==
    <<"@", "T", "E", "M", "P", "L", "A", "T", "E", "_",
      "E", "X", "P", "R", "E", "S", "S", "I", "O", "N">>

\* parts.some((part) => part.text.includes(placeholder + suffix))
SomePartIncludes(texts, t) == \E i \in 1..Len(texts) : Includes(texts[i], t)

\* the loop with its test made once: an if in place of the while
GetPlaceholderTestOnce(texts, placeholder) ==
    IF SomePartIncludes(texts, placeholder \o suffix)
    THEN placeholder \o <<"_">> \o suffix
    ELSE placeholder \o suffix

\* the while loop of getPlaceholder, from the placeholder built so far
RECURSIVE GetPlaceholderLoop(_, _)
GetPlaceholderLoop(texts, placeholder) ==
    IF SomePartIncludes(texts, placeholder \o suffix)
    THEN GetPlaceholderLoop(texts, placeholder \o <<"_">>)
    ELSE placeholder \o suffix

\* defaultStrategy.getPlaceholder(parts)
getPlaceholder(texts) == GetPlaceholderLoop(texts, PlaceholderBase)

\* defaultStrategy.combineHTMLStrings(parts, placeholder)
combineHTMLStrings(texts, placeholder) == JoinStr(texts, placeholder)

\* for (let i = parts.length - 1; i >= 0; i--)
\*   parts.splice(i, 1, ...parts[i].split(withoutSemicolon))
RECURSIVE SpliceLoop(_, _, _)
SpliceLoop(parts, i, withoutSemicolon) ==
    IF i < 1 THEN parts
    ELSE SpliceLoop(SubSeq(parts, 1, i - 1)
                      \o SplitStr(parts[i], withoutSemicolon)
                      \o SubSeq(parts, i + 1, Len(parts)),
                    i - 1, withoutSemicolon)

\* a split that only uses the full placeholder
SplitFullOnly(html, placeholder) == SplitStr(html, placeholder)

\* defaultStrategy.splitHTMLByPlaceholder(html, placeholder)
splitHTMLByPlaceholder(html, placeholder) ==
    LET parts == SplitStr(html, placeholder)
    IN IF EndsWith(placeholder, <<";">>)
       THEN SpliceLoop(parts, Len(parts), Substring(placeholder, 0, Len(placeholder) - 1))
       ELSE parts

(***************************************************************************)
(* Inputs of the codec: template bodies made of chunks and holes.          *)
(***************************************************************************)
Hole == <<"$">>

Chunks == { <<"a">>, <<"_">>, <<"(", ")">>, suffix, PlaceholderBase }

\* the bodies of at most n chunks or holes
RECURSIVE Bodies(_)
Bodies(n) ==
    IF n = 0 THEN { <<>> }
    ELSE LET shorter == Bodies(n - 1)
         IN shorter \cup { Append(b, c) : b \in shorter, c \in Chunks \cup {Hole} }

\* the literal texts between the holes of a body
RECURSIVE PartsOf(_)
PartsOf(body) ==
    IF body = <<>> THEN << <<>> >>
    ELSE LET rest == PartsOf(Tail(body))
         IN IF Head(body) = Hole
            THEN << <<>> >> \o rest
            ELSE << Head(body) \o rest[1] >> \o Tail(rest)

\* placeholders a custom strategy may hand to the codec besides the default
OtherPlaceholders == { <<"#">>, <<"_", "a", "_">> }

(***************************************************************************)
(* fixCleanCssTidySelectors: the selector-spacing fixup.                   *)
(***************************************************************************)
\* what '.' matches in the regex: anything but a line terminator
IsDot(c) == c \notin {"\n", "\r"}

\* what \s matches
IsSpace(c) == c \in {" ", "\t", "\n", "\r"}

AllDot(s, from, to) == \A k \in from..to : IsDot(s[k])

\* [\s\r\n]*{ after the ')' at q: the index of the '{', or 0
BraceAfter(s, q) ==
    LET cands == {e \in (q + 1)..Len(s) :
                     s[e] = "{" /\ \A k \in (q + 1)..(e - 1) : IsSpace(s[k])}
    IN IF cands = {} THEN 0 ELSE Min(cands)

\* the ways .+\((.*)\) [\s\r\n]*{ can match when .+ starts at d: p is the
\* index of '(' and q the index of ')'
GroupPairs(s, d) ==
    {pq \in ((d + 1)..Len(s)) \X ((d + 2)..Len(s)) :
        /\ pq[1] < pq[2]
        /\ s[pq[1]] = "("
        /\ s[pq[2]] = ")"
        /\ AllDot(s, d, pq[2])
        /\ BraceAfter(s, pq[2]) > 0}

\* greedy .+ then greedy .*: the last '(' that works, then the last ')'
GreedyPair(pairs) ==
    CHOOSE pq \in pairs :
        \A other \in pairs :
            \/ other[1] < pq[1]
            \/ other[1] = pq[1] /\ other[2] <= pq[2]

\* ::? tries two colons before one
MatchPairsAt(s, i) ==
    IF i > Len(s) \/ s[i] # ":" THEN {}
    ELSE LET two == IF i + 1 <= Len(s) /\ s[i + 1] = ":" THEN GroupPairs(s, i + 2) ELSE {}
         IN IF two # {} THEN two ELSE GroupPairs(s, i + 1)

NoMatch == [found |-> FALSE]

\* regex.exec(original) with regex.lastIndex = lastIndex (0-based)
RegexExec(s, lastIndex) ==
    LET starts == {i \in (lastIndex + 1)..Len(s) : MatchPairsAt(s, i) # {}}
    IN IF starts = {} THEN NoMatch
       ELSE LET i == Min(starts)
                pq == GreedyPair(MatchPairsAt(s, i))
            IN [found |-> TRUE,
                pseudoClass |-> SubSeq(s, i, pq[2]),
                parameters |-> SubSeq(s, pq[1] + 1, pq[2] - 1),
                lastIndex |-> BraceAfter(s, pq[2])]

\* parameters.match(/\s/)
HasSpace(s) == \E k \in 1..Len(s) : IsSpace(s[k])

\* parameters.replace(/\s/g, '')
RemoveSpaces(s) == SelectSeq(s, LAMBDA c : ~IsSpace(c))

\* s.replace(t, r) with a string pattern: the first occurrence only
ReplaceFirst(s, t, r) ==
    LET i == IndexOf(s, t)
    IN IF i < 0 THEN s
       ELSE Substring(s, 0, i) \o r \o Substring(s, i + Len(t), Len(s))

\* the body of the while loop for one match: the repaired result
FixOneMatch(match, result) ==
    IF ~HasSpace(match.parameters) THEN result
    ELSE LET parametersWithoutSpaces == RemoveSpaces(match.parameters)
             resultPseudoClass ==
                 ReplaceFirst(match.pseudoClass, match.parameters, parametersWithoutSpaces)
             resultStartIndex == IndexOf(result, resultPseudoClass)
             resultEndIndex == resultStartIndex + Len(resultPseudoClass)
         IN IF resultStartIndex < 0 THEN result
            ELSE Substring(result, 0, resultStartIndex)
                   \o match.pseudoClass
                   \o Substring(result, resultEndIndex, Len(result))

\* fixCleanCssTidySelectors(original, result) from regex.lastIndex on
RECURSIVE FixFrom(_, _, _)
FixFrom(original, result, lastIndex) ==
    LET match == RegexExec(original, lastIndex)
    IN IF ~match.found THEN result
       ELSE FixFrom(original, FixOneMatch(match, result), match.lastIndex)

fixCleanCssTidySelectors(original, result) == FixFrom(original, result, 0)

(***************************************************************************)
(* Inputs of the fixup: style sheets of rules whose selectors hold         *)
(* parameterized pseudo-classes, as written and as a style minifier that   *)
(* strips the spaces inside the parentheses leaves them.                   *)
(***************************************************************************)
\* a pseudo-class of a selector, or the end of a rule
SheetTokens ==
    [kind : {"pseudo"}, name : {"n", "m"}, spaced : BOOLEAN]
       \cup {[kind |-> "end", name |-> "", spaced |-> FALSE]}

RECURSIVE Sheets(_)
Sheets(n) ==
    IF n = 0 THEN { <<>> }
    ELSE LET shorter == Sheets(n - 1)
         IN shorter \cup { Append(b, t) : b \in shorter, t \in SheetTokens }

\* what one token contributes: to the text as written (mode "original"), to
\* the minified text ("minified"), or to the minified text with the spaced
\* forms restored ("expected")
TokenText(t, mode) ==
    IF t.kind = "end"
    THEN IF mode = "original" THEN <<" ", "{", "b", "}", "\n">> ELSE <<"{", "b", "}">>
    ELSE <<":", t.name, "(">>
           \o (IF t.spaced /\ mode # "minified" THEN <<" ", "x", " ">> ELSE <<"x">>)
           \o <<")">>

\* a rule starts with the element selector 'a'
RECURSIVE SheetText(_, _, _)
SheetText(sheet, mode, atStart) ==
    IF sheet = <<>> THEN <<>>
    ELSE (IF atStart THEN <<"a">> ELSE <<>>)
           \o TokenText(Head(sheet), mode)
           \o SheetText(Tail(sheet), mode, Head(sheet).kind = "end")

\* a sheet is complete when its last rule is closed
WellFormedSheet(sheet) == sheet # <<>> /\ sheet[Len(sheet)].kind = "end"

(***************************************************************************)
(* The default strategy's minifiers.  html-minifier-terser and clean-css   *)
(* are outside the repository: a behaviour names what the backend does to  *)
(* the text it is given.                                                   *)
(***************************************************************************)
\* '<@TEMPLATE_EXPRESSION();' and '<TEMPLATE_EXPRESSION___'
OpenTagPlaceholder == <<"<">> \o PlaceholderBase \o suffix
OpenTagNeutral == <<"<">> \o Tail(PlaceholderBase) \o <<"_", "_", "_">>

\* '</@TEMPLATE_EXPRESSION();' and '</TEMPLATE_EXPRESSION___'
CloseTagPlaceholder == <<"<", "/">> \o PlaceholderBase \o suffix
CloseTagNeutral == <<"<", "/">> \o Tail(PlaceholderBase) \o <<"_", "_", "_">>

\* the two replaceAll calls before the markup minifier runs
TranslateTagPlaceholders(html) ==
    ReplaceAll(ReplaceAll(html, OpenTagPlaceholder, OpenTagNeutral),
               CloseTagPlaceholder, CloseTagNeutral)

\* the two replaceAll calls after the markup minifier has run
RestoreTagPlaceholders(result) ==
    ReplaceAll(ReplaceAll(result, OpenTagNeutral, OpenTagPlaceholder),
               CloseTagNeutral, CloseTagPlaceholder)

\* css.replace(/(\n)|(\r)|(  )/g, ''), left to right
RECURSIVE CrudeMinify(_)
CrudeMinify(css) ==
    IF css = <<>> THEN <<>>
    ELSE IF Head(css) \in {"\n", "\r"} THEN CrudeMinify(Tail(css))
    ELSE IF Len(css) >= 2 /\ css[1] = " " /\ css[2] = " " THEN CrudeMinify(Tail(Tail(css)))
    ELSE <<Head(css)>> \o CrudeMinify(Tail(css))

\* the indexes of result.matchAll(/<svg/g), reversed
SvgMatches(result) ==
    LET found == {i \in 0..(Len(result) - 4) : SubSeq(result, i + 1, i + 4) = <<"<", "s", "v", "g">>}
    IN found

\* for (const match of matches) { ... }: the last match first
RECURSIVE SvgLoop(_, _)
SvgLoop(result, matches) ==
    IF matches = {} THEN result
    ELSE LET startTagIndex == CHOOSE i \in matches : \A j \in matches : j <= i
             closeTagIndex == IndexOfFrom(result, <<"<", "/", "s", "v", "g">>, startTagIndex)
             start == Substring(result, 0, startTagIndex)
             svg == Substring(result, startTagIndex, closeTagIndex)
             end == Substring(result, closeTagIndex, Len(result))
             next == IF closeTagIndex < 0 THEN result
                     ELSE start \o SelectSeq(svg, LAMBDA c : c # "\n" /\ c # "\r") \o end
         IN SvgLoop(next, matches \ {startTagIndex})

\* what a backend may do with the text: return it, collapse its doubled
\* spaces, delete the first placeholder as garbage, or strip the ';' that
\* ends each placeholder
Backend(text, placeholder, behaviour) ==
    CASE behaviour = "identity" -> text
      [] behaviour = "collapse" -> CrudeMinify(text)
      [] behaviour = "dropPlaceholder" ->
            IF placeholder = <<>> THEN text ELSE ReplaceFirst(text, placeholder, <<>>)
      [] behaviour = "stripSemicolon" ->
            IF EndsWith(placeholder, <<";">>)
            THEN ReplaceAll(text, placeholder, Substring(placeholder, 0, Len(placeholder) - 1))
            ELSE text
      [] OTHER -> text

Rejected == [ok |-> FALSE, text |-> <<>>]
Resolved(text) == [ok |-> TRUE, text |-> text]

\* defaultStrategy.minifyHTML(html, options)
minifyHTML(html, htmlOptions, placeholder, behaviour) ==
    IF behaviour = "error" THEN Rejected
    ELSE LET translated == TranslateTagPlaceholders(html)
             minified == Backend(translated, placeholder, behaviour)
             restored == RestoreTagPlaceholders(minified)
             collapsed == IF htmlOptions.collapseWhitespace = "true"
                          THEN SvgLoop(restored, SvgMatches(restored))
                          ELSE restored
         IN Resolved(fixCleanCssTidySelectors(translated, collapsed))

\* defaultStrategy.minifyCSS(css, options)
minifyCSS(css, placeholder, behaviour) ==
    IF behaviour = "error" THEN Rejected
    ELSE IF behaviour = "warning"
    THEN Resolved(fixCleanCssTidySelectors(css, CrudeMinify(css)))
    ELSE Resolved(fixCleanCssTidySelectors(css, Backend(css, placeholder, behaviour)))

HTMLBehaviours == {"identity", "collapse", "dropPlaceholder", "stripSemicolon", "error"}
CSSBehaviours == HTMLBehaviours \cup {"warning"}
\* what a caller's minifyCSS function may do
FunctionBehaviours == {"identity", "collapse", "dropPlaceholder"}

(***************************************************************************)
(* The options object and its defaulting.  An object is a function from    *)
(* its own keys to values; a spread copies the own keys.                   *)
(***************************************************************************)
EmptyObject == [k \in {} |-> "undefined"]

\* {...a, ...b}
Spread(a, b) ==
    [k \in (DOMAIN a) \cup (DOMAIN b) |-> IF k \in DOMAIN b THEN b[k] ELSE a[k]]

\* defaultMinifyOptions: the keys minifyHTMLLiterals and the strategy read
defaultMinifyOptions == [collapseWhitespace |-> "true", minifyCSS |-> "object"]

\* options.parseLiteralsOptions = {fileName: options.fileName, ...options.parseLiteralsOptions}
DefaultParseLiteralsOptions(opts) ==
    Spread([fileName |-> opts.fileName], opts.parseLiteralsOptions)

\* options.minifyOptions = {...defaultMinifyOptions, ...options.minifyOptions}
DefaultMinifyOptions(opts) == Spread(defaultMinifyOptions, opts.minifyOptions)

\* the writes minifyHTMLLiterals makes to the options object it is given
Defaulting(opts) ==
    [opts EXCEPT !.minifyOptions = DefaultMinifyOptions(opts),
                 !.parseLiteralsOptions = DefaultParseLiteralsOptions(opts)]

\* an options object as a caller builds it
OptionsObject(fileName, minifyOptions, parseLiteralsOptions, optValidate, strategy) ==
    [fileName |-> fileName, minifyOptions |-> minifyOptions,
     parseLiteralsOptions |-> parseLiteralsOptions,
     validate |-> optValidate, strategy |-> strategy]

\* validate stays undefined when options.validate is false
SelectValidateNoDefault(optValidate) ==
    IF optValidate = "custom" THEN "custom" ELSE "none"

\* if (options.validate !== false) validate = options.validate || defaultValidation
SelectValidate(optValidate) ==
    IF optValidate # "false"
    THEN IF optValidate = "unset" THEN "default" ELSE optValidate
    ELSE "none"

\* validate.ensurePlaceholderValid(placeholder) throws; a custom Validation
\* here is one that accepts everything
PlaceholderInvalid(val, placeholder) ==
    val = "default" /\ Len(placeholder) = 0

\* validate.ensureHTMLPartsValid(parts, htmlParts) throws
HTMLPartsInvalid(val, parts, htmlParts) ==
    val = "default" /\ Len(parts) # Len(htmlParts)

(***************************************************************************)
(* Sources and the templates the locator (parse-literals) finds in them.   *)
(***************************************************************************)
unsafeHTML == <<"u", "n", "s", "a", "f", "e", "H", "T", "M", "L">>
unsafeCSS == <<"u", "n", "s", "a", "f", "e", "C", "S", "S">>

\* String.prototype.toLowerCase on the letters the tags use
LowerChar(c) ==
    CASE c = "S" -> "s" [] c = "V" -> "v" [] c = "G" -> "g" [] OTHER -> c

ToLowerCase(s) == [i \in 1..Len(s) |-> LowerChar(s[i])]

\* defaultShouldMinify(template)
defaultShouldMinify(template) ==
    LET tag == ToLowerCase(template.tag)
    IN Len(tag) > 0 /\ (Includes(tag, <<"h", "t", "m", "l">>) \/ Includes(tag, <<"s", "v", "g">>))

\* defaultShouldMinifyCSS(template)
defaultShouldMinifyCSS(template) ==
    Includes(ToLowerCase(template.tag), <<"c", "s", "s">>)

\* ${x}
HoleText == <<"$", "{", "x", "}">>

TemplateTags == { <<"h", "t", "m", "l">>, <<"c", "s", "s">>, <<"t">>, <<"c", "s", "s", "S", "V", "G">> }

\* the literal texts of a template: a  b${x}  and  a  ${x}${x}b
TemplateTexts ==
    { << <<"a", " ", " ", "b">>, <<>> >>,
      << <<"a", " ", " ">>, <<>>, <<"b">> >> }

TemplateSpecs == [tag : TemplateTags, texts : TemplateTexts]

\* the delimiter of a template literal (the backquote, written as a quote)
Quote == <<"'">>

\* the source text of one tagged template
TemplateSource(tpl) ==
    tpl.tag \o Quote \o JoinStr(tpl.texts, HoleText) \o Quote \o <<";">>

RECURSIVE SourceOf(_)
SourceOf(tpls) ==
    IF tpls = <<>> THEN <<>> ELSE TemplateSource(Head(tpls)) \o SourceOf(Tail(tpls))

\* TemplatePart: the text and its half-open range in the source
RECURSIVE PartsAt(_, _)
PartsAt(texts, offset) ==
    IF texts = <<>> THEN <<>>
    ELSE <<[text |-> Head(texts), start |-> offset, end |-> offset + Len(Head(texts))]>>
           \o PartsAt(Tail(texts), offset + Len(Head(texts)) + Len(HoleText))

\* what parseLiterals returns for the templates laid out from offset on
RECURSIVE LocateFrom(_, _)
LocateFrom(tpls, offset) ==
    IF tpls = <<>> THEN <<>>
    ELSE <<[tag |-> Head(tpls).tag,
            parts |-> PartsAt(Head(tpls).texts, offset + Len(Head(tpls).tag) + 1)]>>
           \o LocateFrom(Tail(tpls), offset + Len(TemplateSource(Head(tpls))))

\* the text before the first template: nothing, or calls of the escape functions
Preambles ==
    { <<>>, unsafeHTML \o <<";">>, unsafeCSS \o <<";">>, unsafeHTML \o <<";">> \o unsafeCSS \o <<";">> }

RECURSIVE TemplateLists(_)
TemplateLists(n) ==
    IF n = 0 THEN { <<>> }
    ELSE LET shorter == TemplateLists(n - 1)
         IN shorter \cup { Append(l, t) : l \in shorter, t \in TemplateSpecs }

(***************************************************************************)
(* The edit buffer (magic-string): one slot per character of the original. *)
(* An overwrite puts its content in the first slot of its range, empties   *)
(* the others and marks them edited.                                       *)
(***************************************************************************)
\* new options.MagicString(source)
msNew(src) == [i \in 1..Len(src) |-> [edited |-> FALSE, content |-> <<src[i]>>]]

\* ms.overwrite(start, end, content) throws
msOverwriteThrows(buf, start, end) ==
    \/ start >= end
    \/ start < 0
    \/ end > Len(buf)
    \/ \E i \in (start + 1)..end : buf[i].edited

\* ms.overwrite(start, end, content)
msOverwrite(buf, start, end, content) ==
    [i \in 1..Len(buf) |->
        IF i = start + 1 THEN [edited |-> TRUE, content |-> content]
        ELSE IF i > start + 1 /\ i <= end THEN [edited |-> TRUE, content |-> <<>>]
        ELSE buf[i]]

\* ms.toString()
RECURSIVE msRender(_, _)
msRender(buf, i) ==
    IF i > Len(buf) THEN <<>> ELSE buf[i].content \o msRender(buf, i + 1)

msToString(buf) == msRender(buf, 1)

(***************************************************************************)
(* The codec as a state machine: getPlaceholder, combine, split.           *)
(***************************************************************************)
CodecGetPlaceholder ==
    /\ cPc = "start"
    /\ cPlaceholder' = getPlaceholder(cParts)
    /\ cPc' = "placeholder"
    /\ cCustom' = FALSE
    /\ UNCHANGED <<cParts, cCombined, cSplit>>
    /\ UNCHANGED <<fixVars, options, callVars, transformVars, optsVars>>

CodecCustomPlaceholder ==
    /\ cPc = "start"
    /\ \E p \in OtherPlaceholders :
          /\ ~SomePartIncludes(cParts, p)
          /\ cPlaceholder' = p
    /\ cPc' = "placeholder"
    /\ cCustom' = TRUE
    /\ UNCHANGED <<cParts, cCombined, cSplit>>
    /\ UNCHANGED <<fixVars, options, callVars, transformVars, optsVars>>

CodecCombine ==
    /\ cPc = "placeholder"
    /\ cCombined' = combineHTMLStrings(cParts, cPlaceholder)
    /\ cPc' = "combined"
    /\ UNCHANGED <<cParts, cPlaceholder, cSplit, cCustom>>
    /\ UNCHANGED <<fixVars, options, callVars, transformVars, optsVars>>

CodecSplit ==
    /\ cPc = "combined"
    /\ cSplit' = splitHTMLByPlaceholder(cCombined, cPlaceholder)
    /\ cPc' = "split"
    /\ UNCHANGED <<cParts, cPlaceholder, cCombined, cCustom>>
    /\ UNCHANGED <<fixVars, options, callVars, transformVars, optsVars>>

CodecNext ==
    \/ CodecGetPlaceholder
    \/ CodecCustomPlaceholder
    \/ CodecCombine
    \/ CodecSplit

(***************************************************************************)
(* The fixup as a state machine: one step per iteration of its while loop. *)
(***************************************************************************)
\* while ((match = regex.exec(original)) != null) { ... }
FixLoopBody ==
    /\ fPc = "loop"
    /\ LET match == RegexExec(fOriginal, fLastIndex)
       IN /\ match.found
          /\ fResult' = FixOneMatch(match, fResult)
          /\ fLastIndex' = match.lastIndex
    /\ UNCHANGED <<fOriginal, fExpected, fPc>>
    /\ UNCHANGED <<codecVars, options, callVars, transformVars, optsVars>>

\* return result
FixReturn ==
    /\ fPc = "loop"
    /\ ~RegexExec(fOriginal, fLastIndex).found
    /\ fPc' = "done"
    /\ UNCHANGED <<fOriginal, fResult, fExpected, fLastIndex>>
    /\ UNCHANGED <<codecVars, options, callVars, transformVars, optsVars>>

FixNext ==
    \/ FixLoopBody
    \/ FixReturn

(***************************************************************************)
(* minifyHTMLLiterals.                                                      *)
(***************************************************************************)
\* <Strategy>options.strategy || defaultStrategy: a custom strategy here is
\* the default one without minifyCSS ("noCSS"), or the default one with a
\* getPlaceholder that returns '' ("badPlaceholder")
StrategyHasMinifyCSS(strategy) == strategy # "noCSS"

StrategyGetPlaceholder(strategy, texts) ==
    IF strategy = "badPlaceholder" THEN <<>> ELSE getPlaceholder(texts)

Texts(parts) == [i \in 1..Len(parts) |-> parts[i].text]

\* strategy.minifyCSS && source.includes("unsafeCSS")
SkipCSS(src, strategy) == StrategyHasMinifyCSS(strategy) /\ Includes(src, unsafeCSS)

\* source.includes("unsafeHTML")
SkipHTML(src) == Includes(src, unsafeHTML)

\* the markup mode chosen without a look at skipHTML
WantsHTMLIgnoringMarker(template, noHTML) == defaultShouldMinify(template)

\* const minifyHTML = !skipHTML && shouldMinify(template)
WantsHTML(template, noHTML) == ~noHTML /\ defaultShouldMinify(template)

\* const minifyCSS = !skipCSS && strategy.minifyCSS && shouldMinifyCSS(template)
WantsCSS(template, noCSS, strategy) ==
    ~noCSS /\ StrategyHasMinifyCSS(strategy) /\ defaultShouldMinifyCSS(template)

\* the classification with the escape markers ignored
ClassifyIgnoringMarkers(template, noHTML, noCSS, opts) ==
    IF defaultShouldMinifyCSS(template) /\ StrategyHasMinifyCSS(opts.strategy)
    THEN "minifyCSS"
    ELSE IF defaultShouldMinify(template) THEN "minifyHTML" ELSE "skip"

\* how a template's text gets minified: not at all ("skip"), by the caller's
\* minifyCSS function, unchanged because minifyCSS is false ("cssOff"), by
\* strategy.minifyCSS or by strategy.minifyHTML
Classify(template, noHTML, noCSS, opts) ==
    IF ~(WantsHTML(template, noHTML) \/ WantsCSS(template, noCSS, opts.strategy))
    THEN "skip"
    ELSE IF WantsCSS(template, noCSS, opts.strategy)
    THEN CASE opts.minifyOptions.minifyCSS = "function" -> "cssFunction"
           [] opts.minifyOptions.minifyCSS = "false" -> "cssOff"
           [] OTHER -> "minifyCSS"
    ELSE "minifyHTML"

\* the range with the length change of the edits made so far added to it
OverwriteRangeInRendered(buf, part) ==
    LET delta == Len(msToString(buf)) - Len(buf)
    IN [start |-> part.start + delta, end |-> part.end + delta]

\* the range ms.overwrite(part.start, part.end, ...) is given
OverwriteRange(buf, part) == [start |-> part.start, end |-> part.end]

\* for (let [index, part] of template.parts.entries())
\*   if (part.start < part.end) ms.overwrite(part.start, part.end, minParts[index]!)
\* from index on; minParts[index] is undefined past the end of minParts, and
\* the buffer throws on content that is no string
RECURSIVE ApplyParts(_, _, _, _)
ApplyParts(buf, parts, minParts, index) ==
    IF index > Len(parts) THEN [ms |-> buf, threw |-> FALSE, calls |-> 0]
    ELSE IF parts[index].start < parts[index].end
    THEN LET range == OverwriteRange(buf, parts[index])
         IN IF index > Len(minParts) \/ msOverwriteThrows(buf, range.start, range.end)
            THEN [ms |-> buf, threw |-> TRUE, calls |-> 1]
            ELSE LET r == ApplyParts(msOverwrite(buf, range.start, range.end, minParts[index]),
                                     parts, minParts, index + 1)
                 IN [r EXCEPT !.calls = @ + 1]
    ELSE ApplyParts(buf, parts, minParts, index + 1)

\* the rest of the map callback once min is known: split, validate, overwrite
FinishTemplate(buf, template, placeholder, min, val) ==
    IF ~min.ok THEN [state |-> "rejected", ms |-> buf, minParts |-> <<>>, calls |-> 0]
    ELSE LET minParts == splitHTMLByPlaceholder(min.text, placeholder)
         IN IF HTMLPartsInvalid(val, template.parts, minParts)
            THEN [state |-> "rejected", ms |-> buf, minParts |-> minParts, calls |-> 0]
            ELSE LET r == ApplyParts(buf, template.parts, minParts, 1)
                 IN [state |-> IF r.threw THEN "rejected" ELSE "fulfilled",
                     ms |-> r.ms, minParts |-> minParts, calls |-> r.calls]

\* Promise.allSettled in place of Promise.all: go on when every promise has settled
AllSettled(states) == \A t \in DOMAIN states : states[t] \in {"fulfilled", "rejected"}

\* await Promise.all(promises) goes on when every promise is fulfilled
AllFulfilled(states) == \A t \in DOMAIN states : states[t] = "fulfilled"

\* await Promise.all(promises) throws when a promise is rejected
SomeRejected(states) == \E t \in DOMAIN states : states[t] = "rejected"

\* lines 538-579: the options are defaulted, the source is parsed, the
\* validation and the skip flags are chosen, the edit buffer is made
Begin ==
    /\ pc = "begin"
    /\ options' = Defaulting(options)
    /\ templates' = literals
    /\ validate' = SelectValidate(options.validate)
    /\ skipCSS' = SkipCSS(source, options.strategy)
    /\ skipHTML' = SkipHTML(source)
    /\ ms' = msNew(source)
    /\ mapIndex' = 1
    /\ pc' = "map"
    /\ UNCHANGED <<source, literals, tState, tVia, tPlaceholder, tMinParts, outcome,
                   resultCode, nGetPlaceholder, nMinify, nOverwrite>>
    /\ UNCHANGED <<codecVars, fixVars, transformVars, optsVars>>

\* templates.map(async (template) => ...): the callback of the next
\* template runs up to its first await, or to its end when it awaits nothing
StartTemplate ==
    /\ pc = "map"
    /\ mapIndex <= Len(templates)
    /\ LET t == mapIndex
           template == templates[t]
           via == Classify(template, skipHTML, skipCSS, options)
           placeholder == StrategyGetPlaceholder(options.strategy, Texts(template.parts))
           combined == combineHTMLStrings(Texts(template.parts), placeholder)
       IN IF via = "skip"
          THEN /\ tState' = [tState EXCEPT ![t] = "fulfilled"]
               /\ tVia' = [tVia EXCEPT ![t] = via]
               /\ UNCHANGED <<tPlaceholder, tMinParts, ms, nGetPlaceholder, nMinify, nOverwrite>>
          ELSE IF PlaceholderInvalid(validate, placeholder)
          THEN /\ tState' = [tState EXCEPT ![t] = "rejected"]
               /\ tVia' = [tVia EXCEPT ![t] = via]
               /\ tPlaceholder' = [tPlaceholder EXCEPT ![t] = placeholder]
               /\ nGetPlaceholder' = nGetPlaceholder + 1
               /\ UNCHANGED <<tMinParts, ms, nMinify, nOverwrite>>
          ELSE IF via \in {"cssFunction", "cssOff"}
          THEN \E behaviour \in (IF via = "cssOff" THEN {"identity"} ELSE FunctionBehaviours) :
                 LET min == Resolved(Backend(combined, placeholder, behaviour))
                     fin == FinishTemplate(ms, template, placeholder, min, validate)
                 IN /\ tState' = [tState EXCEPT ![t] = fin.state]
                    /\ tVia' = [tVia EXCEPT ![t] = via]
                    /\ tPlaceholder' = [tPlaceholder EXCEPT ![t] = placeholder]
                    /\ tMinParts' = [tMinParts EXCEPT ![t] = fin.minParts]
                    /\ ms' = fin.ms
                    /\ nGetPlaceholder' = nGetPlaceholder + 1
                    /\ nMinify' = nMinify + (IF via = "cssFunction" THEN 1 ELSE 0)
                    /\ nOverwrite' = nOverwrite + fin.calls
          ELSE /\ tState' = [tState EXCEPT ![t] = "awaiting"]
               /\ tVia' = [tVia EXCEPT ![t] = via]
               /\ tPlaceholder' = [tPlaceholder EXCEPT ![t] = placeholder]
               /\ nGetPlaceholder' = nGetPlaceholder + 1
               /\ nMinify' = nMinify + 1
               /\ UNCHANGED <<tMinParts, ms, nOverwrite>>
    /\ mapIndex' = mapIndex + 1
    /\ UNCHANGED <<source, literals, templates, validate, skipCSS, skipHTML, pc, outcome,
                   resultCode, options>>
    /\ UNCHANGED <<codecVars, fixVars, transformVars, optsVars>>

\* the map is over: const promises holds one promise per template
MapDone ==
    /\ pc = "map"
    /\ mapIndex > Len(templates)
    /\ pc' = "await"
    /\ UNCHANGED <<source, literals, templates, validate, skipCSS, skipHTML, ms, mapIndex,
                   tState, tVia, tPlaceholder, tMinParts, outcome, resultCode,
                   nGetPlaceholder, nMinify, nOverwrite, options>>
    /\ UNCHANGED <<codecVars, fixVars, transformVars, optsVars>>

\* the minifier a template awaits settles, and its callback runs to its end
MinifierSettles ==
    /\ pc \in {"await", "done"}
    /\ \E t \in DOMAIN tState :
          /\ tState[t] = "awaiting"
          /\ \E behaviour \in (IF tVia[t] = "minifyCSS" THEN CSSBehaviours ELSE HTMLBehaviours) :
                LET template == templates[t]
                    combined == combineHTMLStrings(Texts(template.parts), tPlaceholder[t])
                    min == IF tVia[t] = "minifyCSS"
                           THEN minifyCSS(combined, tPlaceholder[t], behaviour)
                           ELSE minifyHTML(combined, options.minifyOptions, tPlaceholder[t], behaviour)
                    fin == FinishTemplate(ms, template, tPlaceholder[t], min, validate)
                IN /\ tState' = [tState EXCEPT ![t] = fin.state]
                   /\ tMinParts' = [tMinParts EXCEPT ![t] = fin.minParts]
                   /\ ms' = fin.ms
                   /\ nOverwrite' = nOverwrite + fin.calls
    /\ UNCHANGED <<source, literals, templates, validate, skipCSS, skipHTML, mapIndex, tVia,
                   tPlaceholder, pc, outcome, resultCode, nGetPlaceholder, nMinify, options>>
    /\ UNCHANGED <<codecVars, fixVars, transformVars, optsVars>>

\* await Promise.all(promises) throws: the call rejects
PromiseAllRejects ==
    /\ pc = "await"
    /\ SomeRejected(tState)
    /\ pc' = "done"
    /\ outcome' = "rejected"
    /\ UNCHANGED <<source, literals, templates, validate, skipCSS, skipHTML, ms, mapIndex,
                   tState, tVia, tPlaceholder, tMinParts, resultCode, nGetPlaceholder,
                   nMinify, nOverwrite, options>>
    /\ UNCHANGED <<codecVars, fixVars, transformVars, optsVars>>

\* lines 623-636: the buffer is rendered; null when nothing changed
PromiseAllResolves ==
    /\ pc = "await"
    /\ AllFulfilled(tState)
    /\ LET sourceMin == msToString(ms)
       IN /\ outcome' = IF source = sourceMin THEN "null" ELSE "result"
          /\ resultCode' = IF source = sourceMin THEN <<>> ELSE sourceMin
    /\ pc' = "done"
    /\ UNCHANGED <<source, literals, templates, validate, skipCSS, skipHTML, ms, mapIndex,
                   tState, tVia, tPlaceholder, tMinParts, nGetPlaceholder, nMinify,
                   nOverwrite, options>>
    /\ UNCHANGED <<codecVars, fixVars, transformVars, optsVars>>

CallNext ==
    \/ Begin
    \/ StartTemplate
    \/ MapDone
    \/ MinifierSettles
    \/ PromiseAllRejects
    \/ PromiseAllResolves

(***************************************************************************)
(* The Parcel transformer.  The repository holds two copies of transform:  *)
(* src/index.ts, and the one that guards the result.                       *)
(***************************************************************************)
\* src/index.ts: asset.setCode(res.code); reading res.code of null throws
TransformIndexTs(res, code, asset) ==
    IF res = "null"
    THEN [threw |-> TRUE, assetCode |-> asset, setCode |-> 0]
    ELSE [threw |-> FALSE, assetCode |-> code, setCode |-> 1]

\* if (res && res.code) asset.setCode(res.code)
TransformGuarded(res, code, asset) ==
    IF res = "result" /\ code # <<>>
    THEN [threw |-> FALSE, assetCode |-> code, setCode |-> 1]
    ELSE [threw |-> FALSE, assetCode |-> asset, setCode |-> 0]

Builds == {"src/index.ts", "guarded"}

\* const source = await asset.getCode(); minifyHTMLLiterals(source) is called
TransformCalls ==
    /\ trPc = "start"
    /\ pc = "idle"
    /\ trPc' = "called"
    /\ pc' = "begin"
    /\ UNCHANGED <<build, assetCode, setCodeCalls>>
    /\ UNCHANGED <<source, literals, templates, validate, skipCSS, skipHTML, ms, mapIndex,
                   tState, tVia, tPlaceholder, tMinParts, outcome, resultCode,
                   nGetPlaceholder, nMinify, nOverwrite, options>>
    /\ UNCHANGED <<codecVars, fixVars, optsVars>>

\* const res = await minifyHTMLLiterals(source) goes on, or throws
TransformResumes ==
    /\ trPc = "called"
    /\ outcome # "pending"
    /\ LET r == IF outcome = "rejected"
                THEN [threw |-> TRUE, assetCode |-> assetCode, setCode |-> 0]
                ELSE IF build = "src/index.ts"
                THEN TransformIndexTs(outcome, resultCode, assetCode)
                ELSE TransformGuarded(outcome, resultCode, assetCode)
       IN /\ trPc' = IF r.threw THEN "threw" ELSE "returned"
          /\ assetCode' = r.assetCode
          /\ setCodeCalls' = setCodeCalls + r.setCode
    /\ UNCHANGED build
    /\ UNCHANGED <<options, callVars, codecVars, fixVars, optsVars>>

TransformNext ==
    \/ TransformCalls
    \/ TransformResumes
    \/ Begin
    \/ StartTemplate
    \/ MapDone
    \/ MinifierSettles
    \/ PromiseAllRejects
    \/ PromiseAllResolves

(***************************************************************************)
(* One options object used for several calls.                              *)
(***************************************************************************)
FileNames == {"undefined", "a.js", "b.ts"}

\* the minifyOptions a caller sets
CallerMinifyOptions == { EmptyObject, [minifyCSS |-> "false"], [minifyCSS |-> "function"] }

\* the parseLiteralsOptions a caller sets
CallerParseLiteralsOptions == { EmptyObject, [fileName |-> "c.js"] }

\* {} as minifyHTMLLiterals' default parameter makes it
NoOptions == OptionsObject("undefined", EmptyObject, EmptyObject, "unset", "unset")

\* what a call hands to parseLiterals, to the minifiers and to the source map
PassedBy(opts) ==
    [parseLiteralsOptions |-> opts.parseLiteralsOptions,
     minifyOptions |-> opts.minifyOptions,
     fileName |-> opts.fileName]

\* the caller writes options.fileName
CallerSetsFileName ==
    /\ \E f \in FileNames :
          /\ options' = [options EXCEPT !.fileName = f]
          /\ callerOptions' = [callerOptions EXCEPT !.fileName = f]
    /\ UNCHANGED <<passed, passedFresh, oCalls>>
    /\ UNCHANGED <<callVars, codecVars, fixVars, transformVars>>

\* the caller writes options.minifyOptions
CallerSetsMinifyOptions ==
    /\ \E m \in CallerMinifyOptions :
          /\ options' = [options EXCEPT !.minifyOptions = m]
          /\ callerOptions' = [callerOptions EXCEPT !.minifyOptions = m]
    /\ UNCHANGED <<passed, passedFresh, oCalls>>
    /\ UNCHANGED <<callVars, codecVars, fixVars, transformVars>>

\* the caller writes options.parseLiteralsOptions
CallerSetsParseLiteralsOptions ==
    /\ \E pl \in CallerParseLiteralsOptions :
          /\ options' = [options EXCEPT !.parseLiteralsOptions = pl]
          /\ callerOptions' = [callerOptions EXCEPT !.parseLiteralsOptions = pl]
    /\ UNCHANGED <<passed, passedFresh, oCalls>>
    /\ UNCHANGED <<callVars, codecVars, fixVars, transformVars>>

\* minifyHTMLLiterals(source, options): lines 538-553
CallWithOptions ==
    /\ oCalls < MaxCalls
    /\ options' = Defaulting(options)
    /\ passed' = PassedBy(Defaulting(options))
    /\ passedFresh' = PassedBy(Defaulting(callerOptions))
    /\ oCalls' = oCalls + 1
    /\ UNCHANGED callerOptions
    /\ UNCHANGED <<callVars, codecVars, fixVars, transformVars>>

OptsNext ==
    \/ CallerSetsFileName
    \/ CallerSetsMinifyOptions
    \/ CallerSetsParseLiteralsOptions
    \/ CallWithOptions

(***************************************************************************)
(* The configurations a call is checked under: the default one, the ones   *)
(* that differ from it in one option, and validate: false with a strategy  *)
(* whose placeholder is invalid.                                           *)
(***************************************************************************)
Configs ==
    { OptionsObject("undefined", m, EmptyObject, "unset", "unset") : m \in CallerMinifyOptions }
      \cup { OptionsObject("undefined", EmptyObject, EmptyObject, v, "unset") : v \in {"false", "custom"} }
      \cup { OptionsObject("undefined", EmptyObject, EmptyObject, "unset", st) : st \in {"noCSS", "badPlaceholder"} }
      \cup { OptionsObject("undefined", EmptyObject, EmptyObject, "false", "badPlaceholder") }

(***************************************************************************)
(* defaultStrategy.minifyHTML on a combined markup text, as the callback   *)
(* of minifyHTMLLiterals drives it: getPlaceholder, combineHTMLStrings,    *)
(* minifyHTML up to its await, minifyHTML from its await on.  fOriginal is *)
(* the html the backend is given, fResult what minifyHTML returns.         *)
(***************************************************************************)
\* the neutral tag name 'TEMPLATE_EXPRESSION___' as a literal may hold it
NeutralName == Tail(OpenTagNeutral)

TagChunks ==
    { <<"<">>, <<"<", "/">>, <<">">>, <<" ", " ">>, NeutralName, PlaceholderBase \o suffix }

\* the markup bodies of at most n chunks or holes
RECURSIVE TagBodies(_)
TagBodies(n) ==
    IF n = 0 THEN { <<>> }
    ELSE LET shorter == TagBodies(n - 1)
         IN shorter \cup { Append(b, c) : b \in shorter, c \in TagChunks \cup {Hole} }

\* backends that return every placeholder of their input as it was
PreservingBehaviours == {"identity", "collapse"}

\* const placeholder = strategy.getPlaceholder(template.parts)
TagGetPlaceholder ==
    /\ cPc = "start"
    /\ cPlaceholder' = getPlaceholder(cParts)
    /\ cPc' = "placeholder"
    /\ UNCHANGED <<cParts, cCombined, cSplit, cCustom>>
    /\ UNCHANGED <<fixVars, options, callVars, transformVars, optsVars>>

\* const combined = strategy.combineHTMLStrings(template.parts, placeholder)
TagCombine ==
    /\ cPc = "placeholder"
    /\ cCombined' = combineHTMLStrings(cParts, cPlaceholder)
    /\ cPc' = "combined"
    /\ UNCHANGED <<cParts, cPlaceholder, cSplit, cCustom>>
    /\ UNCHANGED <<fixVars, options, callVars, transformVars, optsVars>>

\* minifyHTML up to 'await minify(html, ...)': the two replaceAll calls
TagMinifyHTMLCalls ==
    /\ cPc = "combined"
    /\ fOriginal' = TranslateTagPlaceholders(cCombined)
    /\ cPc' = "awaiting"
    /\ UNCHANGED <<cParts, cPlaceholder, cCombined, cSplit, cCustom>>
    /\ UNCHANGED <<fResult, fExpected, fLastIndex, fPc>>
    /\ UNCHANGED <<options, callVars, transformVars, optsVars>>

\* minifyHTML from its await on: the backend's text is restored, its svg
\* elements are joined, its selectors are fixed and it is returned
TagMinifyHTMLResumes ==
    /\ cPc = "awaiting"
    /\ \E behaviour \in PreservingBehaviours :
          fResult' = minifyHTML(cCombined, defaultMinifyOptions, cPlaceholder, behaviour).text
    /\ cPc' = "returned"
    /\ UNCHANGED <<cParts, cPlaceholder, cCombined, cSplit, cCustom>>
    /\ UNCHANGED <<fOriginal, fExpected, fLastIndex, fPc>>
    /\ UNCHANGED <<options, callVars, transformVars, optsVars>>

TagNext ==
    \/ TagGetPlaceholder
    \/ TagCombine
    \/ TagMinifyHTMLCalls
    \/ TagMinifyHTMLResumes

(***************************************************************************)
(* splitHTMLByPlaceholder on a minified text: chunks of text between       *)
(* placeholder occurrences, each occurrence intact or without its ';'.     *)
(***************************************************************************)
\* an occurrence the backend left intact, and one whose ';' it removed
Intact == Hole
Stripped == <<"%">>

\* text a literal may hold: the pieces of a placeholder among it
SplitChunks == { <<"a">>, <<";">>, <<"_">>, <<"(", ")">>, PlaceholderBase }

\* const withoutSemicolon = placeholder.substring(0, placeholder.length - 1)
WithoutSemicolon(placeholder) == Substring(placeholder, 0, Len(placeholder) - 1)

\* the placeholders getPlaceholder returns: as it is and lengthened
SplitPlaceholders ==
    { getPlaceholder(texts) : texts \in { << <<>> >>, << PlaceholderBase \o suffix >> } }

\* the minified bodies of at most n chunks or occurrences
RECURSIVE MinifiedBodies(_)
MinifiedBodies(n) ==
    IF n = 0 THEN { <<>> }
    ELSE LET shorter == MinifiedBodies(n - 1)
         IN shorter \cup { Append(b, c) : b \in shorter, c \in SplitChunks \cup {Intact, Stripped} }

\* the minified text of a body
RECURSIVE LayOut(_, _)
LayOut(body, placeholder) ==
    IF body = <<>> THEN <<>>
    ELSE (CASE Head(body) = Intact -> placeholder
            [] Head(body) = Stripped -> WithoutSemicolon(placeholder)
            [] OTHER -> Head(body))
         \o LayOut(Tail(body), placeholder)

\* the chunks of a body between its occurrences
PiecesOf(body) ==
    PartsOf([i \in 1..Len(body) |-> IF body[i] = Stripped THEN Hole ELSE body[i]])

\* const minParts = strategy.splitHTMLByPlaceholder(min, placeholder)
SplitMinified ==
    /\ cPc = "minified"
    /\ cSplit' = splitHTMLByPlaceholder(cCombined, cPlaceholder)
    /\ cPc' = "split"
    /\ UNCHANGED <<cParts, cPlaceholder, cCombined, cCustom>>
    /\ UNCHANGED <<fixVars, options, callVars, transformVars, optsVars>>

SplitNext == SplitMinified

(***************************************************************************)
(* The specifications.                                                     *)
(***************************************************************************)
CodecInit ==
    /\ cParts \in { PartsOf(b) : b \in Bodies(MaxChunks) }
    /\ cPlaceholder = <<>>
    /\ cCombined = <<>>
    /\ cSplit = <<>>
    /\ cPc = "start"
    /\ cCustom = FALSE
    /\ fOriginal = <<>>
    /\ fResult = <<>>
    /\ fExpected = <<>>
    /\ fLastIndex = 0
    /\ fPc = "idle"
    /\ options = NoOptions
    /\ source = <<>>
    /\ literals = <<>>
    /\ templates = <<>>
    /\ validate = "none"
    /\ skipCSS = FALSE
    /\ skipHTML = FALSE
    /\ ms = <<>>
    /\ mapIndex = 0
    /\ tState = <<>>
    /\ tVia = <<>>
    /\ tPlaceholder = <<>>
    /\ tMinParts = <<>>
    /\ pc = "idle"
    /\ outcome = "pending"
    /\ resultCode = <<>>
    /\ nGetPlaceholder = 0
    /\ nMinify = 0
    /\ nOverwrite = 0
    /\ build = "none"
    /\ trPc = "none"
    /\ assetCode = <<>>
    /\ setCodeCalls = 0
    /\ callerOptions = NoOptions
    /\ passed = PassedBy(NoOptions)
    /\ passedFresh = PassedBy(NoOptions)
    /\ oCalls = 0

SpecCodec == CodecInit /\ [][CodecNext]_vars

FixInit ==
    /\ \E sheet \in Sheets(MaxSheetTokens) :
          /\ WellFormedSheet(sheet)
          /\ fOriginal = SheetText(sheet, "original", TRUE)
          /\ fResult = SheetText(sheet, "minified", TRUE)
          /\ fExpected = SheetText(sheet, "expected", TRUE)
    /\ fLastIndex = 0
    /\ fPc = "loop"
    /\ cParts = << <<>> >>
    /\ cPlaceholder = <<>>
    /\ cCombined = <<>>
    /\ cSplit = <<>>
    /\ cPc = "idle"
    /\ cCustom = FALSE
    /\ options = NoOptions
    /\ source = <<>>
    /\ literals = <<>>
    /\ templates = <<>>
    /\ validate = "none"
    /\ skipCSS = FALSE
    /\ skipHTML = FALSE
    /\ ms = <<>>
    /\ mapIndex = 0
    /\ tState = <<>>
    /\ tVia = <<>>
    /\ tPlaceholder = <<>>
    /\ tMinParts = <<>>
    /\ pc = "idle"
    /\ outcome = "pending"
    /\ resultCode = <<>>
    /\ nGetPlaceholder = 0
    /\ nMinify = 0
    /\ nOverwrite = 0
    /\ build = "none"
    /\ trPc = "none"
    /\ assetCode = <<>>
    /\ setCodeCalls = 0
    /\ callerOptions = NoOptions
    /\ passed = PassedBy(NoOptions)
    /\ passedFresh = PassedBy(NoOptions)
    /\ oCalls = 0

SpecFix == FixInit /\ [][FixNext]_vars

\* a call of minifyHTMLLiterals(source, options)
CallInit ==
    /\ \E pre \in Preambles, tpls \in TemplateLists(MaxTemplates), o \in Configs :
          /\ source = pre \o SourceOf(tpls)
          /\ literals = LocateFrom(tpls, Len(pre))
          /\ options = o
          /\ tState = [t \in 1..Len(tpls) |-> "notStarted"]
          /\ tVia = [t \in 1..Len(tpls) |-> "none"]
          /\ tPlaceholder = [t \in 1..Len(tpls) |-> <<>>]
          /\ tMinParts = [t \in 1..Len(tpls) |-> <<>>]
    /\ templates = <<>>
    /\ validate = "none"
    /\ skipCSS = FALSE
    /\ skipHTML = FALSE
    /\ ms = <<>>
    /\ mapIndex = 0
    /\ pc = "begin"
    /\ outcome = "pending"
    /\ resultCode = <<>>
    /\ nGetPlaceholder = 0
    /\ nMinify = 0
    /\ nOverwrite = 0
    /\ cParts = << <<>> >>
    /\ cPlaceholder = <<>>
    /\ cCombined = <<>>
    /\ cSplit = <<>>
    /\ cPc = "idle"
    /\ cCustom = FALSE
    /\ fOriginal = <<>>
    /\ fResult = <<>>
    /\ fExpected = <<>>
    /\ fLastIndex = 0
    /\ fPc = "idle"
    /\ build = "none"
    /\ trPc = "none"
    /\ assetCode = <<>>
    /\ setCodeCalls = 0
    /\ callerOptions = NoOptions
    /\ passed = PassedBy(NoOptions)
    /\ passedFresh = PassedBy(NoOptions)
    /\ oCalls = 0

Spec == CallInit /\ [][CallNext]_vars

\* transform({asset}): minifyHTMLLiterals(source) with no options
TransformInit ==
    /\ \E pre \in Preambles, tpls \in TemplateLists(MaxTemplates), o \in {NoOptions} :
          /\ source = pre \o SourceOf(tpls)
          /\ literals = LocateFrom(tpls, Len(pre))
          /\ options = o
          /\ tState = [t \in 1..Len(tpls) |-> "notStarted"]
          /\ tVia = [t \in 1..Len(tpls) |-> "none"]
          /\ tPlaceholder = [t \in 1..Len(tpls) |-> <<>>]
          /\ tMinParts = [t \in 1..Len(tpls) |-> <<>>]
    /\ templates = <<>>
    /\ validate = "none"
    /\ skipCSS = FALSE
    /\ skipHTML = FALSE
    /\ ms = <<>>
    /\ mapIndex = 0
    /\ pc = "idle"
    /\ outcome = "pending"
    /\ resultCode = <<>>
    /\ nGetPlaceholder = 0
    /\ nMinify = 0
    /\ nOverwrite = 0
    /\ build \in Builds
    /\ trPc = "start"
    /\ assetCode = source
    /\ setCodeCalls = 0
    /\ cParts = << <<>> >>
    /\ cPlaceholder = <<>>
    /\ cCombined = <<>>
    /\ cSplit = <<>>
    /\ cPc = "idle"
    /\ cCustom = FALSE
    /\ fOriginal = <<>>
    /\ fResult = <<>>
    /\ fExpected = <<>>
    /\ fLastIndex = 0
    /\ fPc = "idle"
    /\ callerOptions = NoOptions
    /\ passed = PassedBy(NoOptions)
    /\ passedFresh = PassedBy(NoOptions)
    /\ oCalls = 0

SpecTransform == TransformInit /\ [][TransformNext]_vars

\* an options object a caller keeps
OptsInit ==
    /\ \E f \in FileNames, m \in CallerMinifyOptions :
          /\ options = OptionsObject(f, m, EmptyObject, "unset", "unset")
          /\ callerOptions = OptionsObject(f, m, EmptyObject, "unset", "unset")
    /\ passed = PassedBy(NoOptions)
    /\ passedFresh = PassedBy(NoOptions)
    /\ oCalls = 0
    /\ cParts = << <<>> >>
    /\ cPlaceholder = <<>>
    /\ cCombined = <<>>
    /\ cSplit = <<>>
    /\ cPc = "idle"
    /\ cCustom = FALSE
    /\ fOriginal = <<>>
    /\ fResult = <<>>
    /\ fExpected = <<>>
    /\ fLastIndex = 0
    /\ fPc = "idle"
    /\ source = <<>>
    /\ literals = <<>>
    /\ templates = <<>>
    /\ validate = "none"
    /\ skipCSS = FALSE
    /\ skipHTML = FALSE
    /\ ms = <<>>
    /\ mapIndex = 0
    /\ tState = <<>>
    /\ tVia = <<>>
    /\ tPlaceholder = <<>>
    /\ tMinParts = <<>>
    /\ pc = "idle"
    /\ outcome = "pending"
    /\ resultCode = <<>>
    /\ nGetPlaceholder = 0
    /\ nMinify = 0
    /\ nOverwrite = 0
    /\ build = "none"
    /\ trPc = "none"
    /\ assetCode = <<>>
    /\ setCodeCalls = 0

SpecOpts == OptsInit /\ [][OptsNext]_vars

TagInit ==
    /\ cParts \in { PartsOf(b) : b \in TagBodies(MaxTagChunks) }
    /\ cPlaceholder = <<>>
    /\ cCombined = <<>>
    /\ cSplit = <<>>
    /\ cPc = "start"
    /\ cCustom = FALSE
    /\ fOriginal = <<>>
    /\ fResult = <<>>
    /\ fExpected = <<>>
    /\ fLastIndex = 0
    /\ fPc = "idle"
    /\ options = NoOptions
    /\ source = <<>>
    /\ literals = <<>>
    /\ templates = <<>>
    /\ validate = "none"
    /\ skipCSS = FALSE
    /\ skipHTML = FALSE
    /\ ms = <<>>
    /\ mapIndex = 0
    /\ tState = <<>>
    /\ tVia = <<>>
    /\ tPlaceholder = <<>>
    /\ tMinParts = <<>>
    /\ pc = "idle"
    /\ outcome = "pending"
    /\ resultCode = <<>>
    /\ nGetPlaceholder = 0
    /\ nMinify = 0
    /\ nOverwrite = 0
    /\ build = "none"
    /\ trPc = "none"
    /\ assetCode = <<>>
    /\ setCodeCalls = 0
    /\ callerOptions = NoOptions
    /\ passed = PassedBy(NoOptions)
    /\ passedFresh = PassedBy(NoOptions)
    /\ oCalls = 0

SpecTag == TagInit /\ [][TagNext]_vars

SplitInit ==
    /\ \E body \in MinifiedBodies(MaxPieces), placeholder \in SplitPlaceholders :
          /\ cParts = PiecesOf(body)
          /\ cPlaceholder = placeholder
          /\ cCombined = LayOut(body, placeholder)
    /\ cSplit = <<>>
    /\ cPc = "minified"
    /\ cCustom = FALSE
    /\ fOriginal = <<>>
    /\ fResult = <<>>
    /\ fExpected = <<>>
    /\ fLastIndex = 0
    /\ fPc = "idle"
    /\ options = NoOptions
    /\ source = <<>>
    /\ literals = <<>>
    /\ templates = <<>>
    /\ validate = "none"
    /\ skipCSS = FALSE
    /\ skipHTML = FALSE
    /\ ms = <<>>
    /\ mapIndex = 0
    /\ tState = <<>>
    /\ tVia = <<>>
    /\ tPlaceholder = <<>>
    /\ tMinParts = <<>>
    /\ pc = "idle"
    /\ outcome = "pending"
    /\ resultCode = <<>>
    /\ nGetPlaceholder = 0
    /\ nMinify = 0
    /\ nOverwrite = 0
    /\ build = "none"
    /\ trPc = "none"
    /\ assetCode = <<>>
    /\ setCodeCalls = 0
    /\ callerOptions = NoOptions
    /\ passed = PassedBy(NoOptions)
    /\ passedFresh = PassedBy(NoOptions)
    /\ oCalls = 0

SpecSplit == SplitInit /\ [][SplitNext]_vars

(***************************************************************************)
(* Claims about the codec.                                                 *)
(***************************************************************************)
\* C1: splitting the combined text by a placeholder that occurs in no part
\* gives back exactly the parts' texts, also for a placeholder ending in ';'
\* when a part holds the placeholder without its ';'.
C1_RoundTrip == cPc = "split" => cSplit = cParts

\* the number of '_' getPlaceholder appended
Underscores(placeholder) == Len(placeholder) - Len(PlaceholderBase) - Len(suffix)

RECURSIVE SumOccurrences(_, _)
SumOccurrences(texts, t) ==
    IF texts = <<>> THEN 0
    ELSE Occurrences(Head(texts), t) + SumOccurrences(Tail(texts), t)

\* C3: getPlaceholder ends and returns a non-empty string that no part's
\* text contains; its loop runs at most once per occurrence of the base
\* token in the parts.
C3_PlaceholderUnique ==
    (cPc \in {"placeholder", "combined", "split"} /\ ~cCustom) =>
        /\ Len(cPlaceholder) > 0
        /\ ~SomePartIncludes(cParts, cPlaceholder)
        /\ StartsWith(cPlaceholder, PlaceholderBase)
        /\ EndsWith(cPlaceholder, suffix)
        /\ Underscores(cPlaceholder) <= SumOccurrences(cParts, PlaceholderBase)

\* getPlaceholder has lengthened its token twice and returned
C3_Witness ==
    /\ cPc = "placeholder"
    /\ ~cCustom
    /\ Underscores(cPlaceholder) = 2


(***************************************************************************)
(* Claims about the selector-spacing fixup.                                *)
(***************************************************************************)
\* C9: the fixup restores the spaced form of every pseudo-class whose
\* parameters held whitespace, at the occurrence that corresponds to it, and
\* leaves everything else of the minified text as it was.
C9_FixRestoresSpacing == fPc = "done" => fResult = fExpected

(***************************************************************************)
(* Claims about minifyHTMLLiterals.                                        *)
(***************************************************************************)
\* the template's callback went past the classification
Processed(t) == tVia[t] \notin {"none", "skip"}

\* what the buffer renders for the range of a part
RECURSIVE RenderRange(_, _, _)
RenderRange(buf, from, to) ==
    IF from > to THEN <<>> ELSE buf[from].content \o RenderRange(buf, from + 1, to)

\* the rendered text of every part of the template is the part's own text
Untouched(t) ==
    \A i \in 1..Len(literals[t].parts) :
        LET part == literals[t].parts[i]
        IN RenderRange(ms, part.start + 1, part.end) = part.text

Started == pc \notin {"idle", "begin"}

\* C2 as stated: under every configuration a processed template that gets
\* as far as its overwrites has as many minified strings as parts, so a
\* call that returns has no template with another number of strings.
C2_PartCountEveryConfig ==
    \A t \in DOMAIN tState :
        (Processed(t) /\ tState[t] = "fulfilled") =>
            Len(tMinParts[t]) = Len(literals[t].parts)

\* C2 amended: when options.validate is not set, a processed template whose
\* split gives another number of strings than it has parts is rejected
\* before any of its overwrites, and the call returns neither a Result nor
\* null.
C2_PartCountDefaultValidation ==
    (Started /\ options.validate = "unset") =>
        \A t \in DOMAIN tState :
            Processed(t) =>
                /\ tState[t] = "fulfilled" => Len(tMinParts[t]) = Len(literals[t].parts)
                /\ (tMinParts[t] # <<>> /\ Len(tMinParts[t]) # Len(literals[t].parts)) =>
                      /\ tState[t] = "rejected"
                      /\ Untouched(t)
                      /\ outcome \in {"pending", "rejected"}

\* the default validation has rejected a template for its part count, and the call
C2_Witness ==
    /\ options.validate = "unset"
    /\ outcome = "rejected"
    /\ \E t \in DOMAIN tState :
          /\ tState[t] = "rejected"
          /\ tMinParts[t] # <<>>
          /\ Len(tMinParts[t]) # Len(literals[t].parts)

\* the style mode applies to the template
StyleMode(t) ==
    /\ defaultShouldMinifyCSS(literals[t])
    /\ StrategyHasMinifyCSS(options.strategy)
    /\ ~Includes(source, unsafeCSS)

\* the ways a template is processed in style mode
StyleVias == {"minifyCSS", "cssFunction", "cssOff"}

AllSkipped ==
    \A t \in DOMAIN literals :
        /\ ~WantsHTML(literals[t], Includes(source, unsafeHTML))
        /\ ~WantsCSS(literals[t], SkipCSS(source, options.strategy), options.strategy)

\* C5: a call on a source without templates, or whose templates are all
\* skipped, calls neither ms.overwrite nor getPlaceholder nor a minifier and
\* returns null.
C5_AbsentOnSkip ==
    (Started /\ AllSkipped) =>
        /\ nOverwrite = 0
        /\ nGetPlaceholder = 0
        /\ nMinify = 0
        /\ outcome \in {"pending", "null"}
        /\ pc = "done" => outcome = "null"

\* a call on two skipped templates has returned null
C5_Witness ==
    /\ pc = "done"
    /\ Len(literals) = 2
    /\ AllSkipped
    /\ outcome = "null"

\* C6: once the processing of a template has failed the call does not
\* return a Result or null, whatever the other templates have done.
C6_FailFast == SomeRejected(tState) => outcome \in {"pending", "rejected"}

\* the call has rejected for one template after another made its overwrites
C6_Witness ==
    /\ outcome = "rejected"
    /\ \E t \in DOMAIN tState : tState[t] = "rejected"
    /\ \E t \in DOMAIN tState : Processed(t) /\ tState[t] = "fulfilled" /\ ~Untouched(t)

\* the overwrites the processed templates make: a template and the index
\* of one of its parts that has text
Edits ==
    UNION { { [t |-> t, index |-> i] :
                i \in {j \in 1..Len(literals[t].parts) :
                          literals[t].parts[j].start < literals[t].parts[j].end} } :
            t \in {u \in DOMAIN tState : Processed(u)} }

\* the edits whose part holds the 0-based position i of the source
EditAt(i) ==
    {e \in Edits :
        /\ literals[e.t].parts[e.index].start <= i
        /\ i < literals[e.t].parts[e.index].end}

\* the source with every processed template's minified strings in place of
\* its parts' texts, built from the left of the source to its right
RECURSIVE ExpectedFrom(_)
ExpectedFrom(i) ==
    IF i >= Len(source) THEN <<>>
    ELSE IF EditAt(i) = {} THEN <<source[i + 1]>> \o ExpectedFrom(i + 1)
    ELSE LET e == CHOOSE x \in EditAt(i) : TRUE
             part == literals[e.t].parts[e.index]
         IN tMinParts[e.t][e.index] \o ExpectedFrom(part.end)

ExpectedOverwrites == Cardinality(Edits)

\* C7: whatever the order in which the minifiers settle, a call that returns
\* has rendered the source with each part replaced by its minified string,
\* has made each overwrite once, and returns null exactly when that text is
\* the source.
C7_OrderIndependent ==
    outcome \in {"null", "result"} =>
        /\ msToString(ms) = ExpectedFrom(0)
        /\ nOverwrite = ExpectedOverwrites
        /\ outcome = "null" <=> ExpectedFrom(0) = source
        /\ outcome = "result" => resultCode = ExpectedFrom(0)

\* two templates were minified by awaited minifiers, both changed
C7_Witness ==
    /\ outcome = "result"
    /\ Len(literals) = 2
    /\ \A t \in DOMAIN tState :
          /\ tVia[t] \in {"minifyCSS", "minifyHTML"}
          /\ ~Untouched(t)

(***************************************************************************)
(* Claims about the options object.                                        *)
(***************************************************************************)
\* C8: a call with an options object that earlier calls received hands its
\* collaborators what a call with a fresh object of the same caller-set
\* values hands them.
C8_Stateless == passed = passedFresh

(***************************************************************************)
(* Claims about the transformer.                                           *)
(***************************************************************************)
\* C10: when minifyHTMLLiterals returns null, transform returns without an
\* error, without a call of asset.setCode and with the asset's code as it
\* was; asset.setCode gets only the code of a Result.
C10_TransformAbsentResult ==
    /\ (trPc \in {"returned", "threw"} /\ outcome = "null") =>
          /\ trPc = "returned"
          /\ setCodeCalls = 0
          /\ assetCode = source
    /\ setCodeCalls > 0 => (outcome = "result" /\ assetCode = resultCode)

(***************************************************************************)
(* Claims about the tag-name translation of minifyHTML.                    *)
(***************************************************************************)
\* C11: the html the markup minifier is given has no placeholder directly
\* after '<' or '</', whatever placeholder getPlaceholder returned, and with
\* a backend that keeps every placeholder the text minifyHTML returns has as
\* many placeholders as the text it was given.
C11_TagTranslation ==
    /\ cPc \in {"awaiting", "returned"} =>
          /\ ~Includes(fOriginal, <<"<">> \o cPlaceholder)
          /\ ~Includes(fOriginal, <<"<", "/">> \o cPlaceholder)
    /\ cPc = "returned" =>
          Occurrences(fResult, cPlaceholder) = Occurrences(cCombined, cPlaceholder)

(***************************************************************************)
(* Claims about the split of a minified text.                              *)
(***************************************************************************)
\* the pieces joined again, occurrence i intact or without its ';'
RECURSIVE RebuildFrom(_, _, _, _)
RebuildFrom(pieces, kinds, placeholder, i) ==
    IF i > Len(pieces) THEN <<>>
    ELSE (IF i = 1 THEN <<>>
          ELSE IF kinds[i - 1] THEN placeholder ELSE WithoutSemicolon(placeholder))
         \o pieces[i] \o RebuildFrom(pieces, kinds, placeholder, i + 1)

\* the places of the text where t is read
OccurrencesAt(text, t) ==
    {i \in 1..Len(text) : i + Len(t) - 1 <= Len(text) /\ SubSeq(text, i, i + Len(t) - 1) = t}

\* k: the placeholder occurrences of the text, intact or without their ';'
\* (an intact one is read as one without ';' followed by ';')
PlaceholderOccurrences(text, placeholder) ==
    Cardinality(OccurrencesAt(text, WithoutSemicolon(placeholder)))

====
